---- MODULE Spec2Model ----
(***************************************************************************)
(* Model of src/codes/20200209_person_reid/src/datasets/market1501.py:     *)
(* the Market-1501 annotation pipeline (directory scan, filename parsing,  *)
(* identity indexing, CSV persistence) and the dataset views that read the *)
(* persisted annotation files back.                                        *)
(*                                                                         *)
(* Python strings are sequences of one-character strings, so that split,   *)
(* slicing, lower() and the code-point order used by sorted() are computed *)
(* rather than assumed.                                                    *)
(*                                                                         *)
(* The image directories are the input: Init draws their entries from      *)
(* three small pools of file names, well-formed and not.  The two build    *)
(* functions, the two loaders and __getitem__ are the actions, each        *)
(* callable at any time; the only step of the environment is the deletion  *)
(* of a file of an image directory.                                        *)
(***************************************************************************)
EXTENDS Integers, Sequences, FiniteSets, TLC

\* ------------------------------------------------------------------------
\* Bounds of the model
\* ------------------------------------------------------------------------

\* Largest number of entries the three directories hold in an initial state.
MaxFiles == 2

\* Largest number of files removed from the directories.
MaxRemoved == 1

\* ------------------------------------------------------------------------
\* Python str primitives
\* ------------------------------------------------------------------------

Digits == <<"0", "1", "2", "3", "4", "5", "6", "7", "8", "9">>

Upper == <<"A", "B", "C", "D", "E", "F", "G", "H", "I", "J", "K", "L", "M",
           "N", "O", "P", "Q", "R", "S", "T", "U", "V", "W", "X", "Y", "Z">>

Lower == <<"a", "b", "c", "d", "e", "f", "g", "h", "i", "j", "k", "l", "m",
           "n", "o", "p", "q", "r", "s", "t", "u", "v", "w", "x", "y", "z">>

InSeq(seq, c) == \E i \in 1..Len(seq) : seq[i] = c

IndexOf(seq, c) == CHOOSE i \in 1..Len(seq) : seq[i] = c

\* The characters of the names and paths of the model.
Chars ==
    {Digits[i] : i \in 1..10} \cup {Upper[i] : i \in 1..26}
        \cup {Lower[i] : i \in 1..26} \cup {"-", ".", "/", "_"}

\* Code point of each character (the order Python compares str by).
CodePoint ==
    [c \in Chars |->
        IF InSeq(Digits, c) THEN 47 + IndexOf(Digits, c)
        ELSE IF InSeq(Upper, c) THEN 64 + IndexOf(Upper, c)
        ELSE IF InSeq(Lower, c) THEN 96 + IndexOf(Lower, c)
        ELSE CASE c = "-" -> 45
               [] c = "." -> 46
               [] c = "/" -> 47
               [] c = "_" -> 95]

\* ord(c)
Ord(c) == CodePoint[c]

\* a < b on Python str, the characters before position i being equal: the
\* first differing code point decides, a proper prefix is smaller.
RECURSIVE StrLessFrom(_, _, _)
StrLessFrom(a, b, i) ==
    IF i > Len(b) THEN FALSE
    ELSE IF i > Len(a) THEN TRUE
    ELSE IF a[i] = b[i] THEN StrLessFrom(a, b, i + 1)
    ELSE Ord(a[i]) < Ord(b[i])

\* a < b on Python str
StrLess(a, b) == StrLessFrom(a, b, 1)

\* list(generator): the elements in order, as one list.
list(f) == f \o <<>>

\* str.lower()
LowerOf ==
    [c \in Chars |-> IF InSeq(Upper, c) THEN Lower[IndexOf(Upper, c)] ELSE c]

lower(s) == list([i \in 1..Len(s) |-> LowerOf[s[i]]])

\* str.split(sep) with a one-character separator: k separators give k+1
\* tokens, the text before the first separator, between two successive ones
\* and after the last.
split(s, sep) ==
    LET cut == SelectSeq(list([i \in 1..Len(s) |-> i]), LAMBDA i : s[i] = sep)
        edge == <<0>> \o cut \o <<Len(s) + 1>>
    IN  list([k \in 1..(Len(cut) + 1) |->
                 SubSeq(s, edge[k] + 1, edge[k + 1] - 1)])

\* s[:n]
SliceTo(s, n) == SubSeq(s, 1, IF n < Len(s) THEN n ELSE Len(s))

\* s[n:]
SliceFrom(s, n) == SubSeq(s, n + 1, Len(s))

\* Insertion of one str into an ascending list, after its equals.
RECURSIVE InsertSorted(_, _)
InsertSorted(x, seq) ==
    IF seq = <<>> THEN <<x>>
    ELSE IF StrLess(x, Head(seq)) THEN <<x>> \o seq
    ELSE <<Head(seq)>> \o InsertSorted(x, Tail(seq))

\* sorted() leaving the list in the order it was given.
sorted_asis(seq) == seq

\* sorted(list of str)
RECURSIVE sorted(_)
sorted(seq) ==
    IF seq = <<>> THEN <<>>
    ELSE InsertSorted(seq[Len(seq)], sorted(SubSeq(seq, 1, Len(seq) - 1)))

\* The orders in which a set (a directory, a Python set) can be enumerated.
Enumerations(S) ==
    {f \in [1..Cardinality(S) -> S] :
        \A i, j \in 1..Cardinality(S) : i # j => f[i] # f[j]}

\* ------------------------------------------------------------------------
\* Inputs: the file names the directories are populated from
\* ------------------------------------------------------------------------

\* 02_c1s1_05_3.jpg
T1 ==
    <<"0", "2", "_", "c", "1", "s", "1", "_", "0", "5", "_", "3", ".", "j", "p", "g">>

\* 02_c1s2_06_4.jpg
T2 ==
    <<"0", "2", "_", "c", "1", "s", "2", "_", "0", "6", "_", "4", ".", "j", "p", "g">>

\* 010_c2s1_01_1.PNG
T3 ==
    <<"0", "1", "0", "_", "c", "2", "s", "1", "_", "0", "1", "_", "1", ".", "P", "N", "G">>

\* notes.txt
T4 ==
    <<"n", "o", "t", "e", "s", ".", "t", "x", "t">>

\* -1_c3s1_07_2.jpeg
G1 ==
    <<"-", "1", "_", "c", "3", "s", "1", "_", "0", "7", "_", "2", ".", "j", "p", "e", "g">>

\* x7_c1_2_1.bak.jpg
G2 ==
    <<"x", "7", "_", "c", "1", "_", "2", "_", "1", ".", "b", "a", "k", ".", "j", "p", "g">>

\* jpg
G3 ==
    <<"j", "p", "g">>

\* 02_c_1_1.jpg
Q1 ==
    <<"0", "2", "_", "c", "_", "1", "_", "1", ".", "j", "p", "g">>

\* abc.jpg
Q2 ==
    <<"a", "b", "c", ".", "j", "p", "g">>

TrainPool == {T1, T2, T3, T4}

GalleryPool == {G1, G2, G3}

QueryPool == {Q1, Q2}

\* --data_root_dir, here d/
data_root_dir == <<"d", "/">>

\* The three partition roles (the values of the column mode).
train == <<"t", "r", "a", "i", "n">>

gallery == <<"g", "a", "l", "l", "e", "r", "y">>

query == <<"q", "u", "e", "r", "y">>

Roles == {train, gallery, query}

\* data_root_dir + 'bounding_box_train/'
train_dir ==
    data_root_dir \o <<"b", "o", "u", "n", "d", "i", "n", "g", "_", "b", "o", "x",
                       "_", "t", "r", "a", "i", "n", "/">>

\* data_root_dir + 'bounding_box_test/'
gallery_dir ==
    data_root_dir \o <<"b", "o", "u", "n", "d", "i", "n", "g", "_", "b", "o", "x",
                       "_", "t", "e", "s", "t", "/">>

\* data_root_dir + 'query/'
query_dir == data_root_dir \o <<"q", "u", "e", "r", "y", "/">>

\* The directory each role is collected from.
DirOf(mode) ==
    IF mode = train THEN train_dir
    ELSE IF mode = gallery THEN gallery_dir
    ELSE query_dir

\* ('jpg', 'jpeg', 'png')
ImageExts == {<<"j", "p", "g">>, <<"j", "p", "e", "g">>, <<"p", "n", "g">>}

\* ------------------------------------------------------------------------
\* Cells of a DataFrame: Python str, int, float and NaN
\* ------------------------------------------------------------------------

PyStr(s) == <<"str", s>>

PyInt(n) == <<"int", n>>

PyFloat(n) == <<"float", n>>

NaN == <<"nan", 0>>

IsStr(cell) == cell[1] = "str"

\* The value person_index is initialised to.
Sentinel == -999

\* ------------------------------------------------------------------------
\* Record collection
\* ------------------------------------------------------------------------

\* d.split('.')[-1].lower() in ('jpg', 'jpeg', 'png')
IsImageName(d) ==
    LET parts == split(d, ".")
    IN  lower(parts[Len(parts)]) \in ImageExts

\* [d for d in os.listdir(dir) if ...]: the comprehension keeps the order.
FilterImages(listing) == SelectSeq(listing, IsImageName)

\* The loop body with image_path set to the directory, the name left out.
org_data_row_dirpath(data_dir, name, mode) ==
    LET splited == split(name, "_")
    IN  IF Len(splited) < 4
        THEN [ok |-> FALSE, err |-> "IndexError", dic |-> <<>>]
        ELSE [ok |-> TRUE, err |-> "",
              dic |-> [image_name  |-> PyStr(name),
                       image_path  |-> PyStr(data_dir),
                       person_id   |-> PyStr(splited[1]),
                       camera_id   |-> PyStr(SliceTo(splited[2], 2)),
                       sequence_id |-> PyStr(SliceFrom(splited[2], 2)),
                       frame_no    |-> PyStr(splited[3]),
                       dpm_bbox_no |-> PyStr(split(splited[4], ".")[1]),
                       mode        |-> PyStr(mode)]]

\* One iteration of the loop of __org_data: the record of one file name, or
\* the IndexError raised by splited[1], splited[2] or splited[3].
org_data_row(data_dir, name, mode) ==
    LET splited == split(name, "_")
    IN  IF Len(splited) < 4
        THEN [ok |-> FALSE, err |-> "IndexError", dic |-> <<>>]
        ELSE [ok |-> TRUE, err |-> "",
              dic |-> [image_name  |-> PyStr(name),
                       image_path  |-> PyStr(data_dir \o name),
                       person_id   |-> PyStr(splited[1]),
                       camera_id   |-> PyStr(SliceTo(splited[2], 2)),
                       sequence_id |-> PyStr(SliceFrom(splited[2], 2)),
                       frame_no    |-> PyStr(splited[3]),
                       dpm_bbox_no |-> PyStr(split(splited[4], ".")[1]),
                       mode        |-> PyStr(mode)]]

\* The loop of __org_data from position i on: lis.append(dic) per name; an
\* exception raised for one name ends the call and no list is returned.
RECURSIVE org_data_loop(_, _, _, _, _)
org_data_loop(data_dir, img_names, mode, i, lis) ==
    IF i > Len(img_names) THEN [ok |-> TRUE, err |-> "", lis |-> lis]
    ELSE LET row == org_data_row(data_dir, img_names[i], mode)
         IN  IF ~row.ok THEN [ok |-> FALSE, err |-> row.err, lis |-> <<>>]
             ELSE org_data_loop(data_dir, img_names, mode, i + 1,
                                Append(lis, row.dic))

\* __org_data
org_data(data_dir, img_names, mode) ==
    org_data_loop(data_dir, img_names, mode, 1, <<>>)

\* ------------------------------------------------------------------------
\* DataFrame
\* ------------------------------------------------------------------------

\* pd.DataFrame(list of dict): the columns are the keys of the dicts (none
\* for an empty list), the index labels are 0..n-1.
DataFrame(lis) ==
    [columns |-> IF lis = <<>> THEN {} ELSE DOMAIN lis[1],
     index   |-> list([i \in 1..Len(lis) |-> i - 1]),
     rows    |-> lis]

\* set(df.loc[df['mode']=='train', 'person_id'].values)
TrainPersonIds(df) ==
    {df.rows[i].person_id[2] :
        i \in {k \in 1..Len(df.rows) : df.rows[k].mode = PyStr(train)}}

\* __add_person_index numbering the person ids in the order the set yields
\* them, without sorting.
add_person_index_unsorted(df, ids_iter) ==
    IF "mode" \notin df.columns
    THEN [ok |-> FALSE, err |-> "KeyError", df |-> df]
    ELSE
    LET train_person_dic(p_id) ==
            (CHOOSE i \in 1..Len(ids_iter) : ids_iter[i] = p_id) - 1
        person_index(row) ==
            IF InSeq(ids_iter, row.person_id[2])
            THEN PyInt(train_person_dic(row.person_id[2]))
            ELSE PyInt(Sentinel)
    IN  [ok |-> TRUE, err |-> "",
         df |-> [columns |-> df.columns \cup {"person_index"},
                 index   |-> df.index,
                 rows    |-> list([i \in 1..Len(df.rows) |->
                     ("person_index" :> person_index(df.rows[i]))
                         @@ df.rows[i]])]]

\* __add_person_index.  ids_iter is the order in which the set of training
\* person ids is iterated when sorted() consumes it.
add_person_index(df, ids_iter) ==
    IF "mode" \notin df.columns
    THEN [ok |-> FALSE, err |-> "KeyError", df |-> df]
    ELSE
    LET train_person_ids == sorted(ids_iter)
        train_person_dic(p_id) ==
            (CHOOSE i \in 1..Len(train_person_ids) :
                 train_person_ids[i] = p_id) - 1
        person_index(row) ==
            IF InSeq(train_person_ids, row.person_id[2])
            THEN PyInt(train_person_dic(row.person_id[2]))
            ELSE PyInt(Sentinel)
    IN  [ok |-> TRUE, err |-> "",
         df |-> [columns |-> df.columns \cup {"person_index"},
                 index   |-> df.index,
                 rows    |-> list([i \in 1..Len(df.rows) |->
                     ("person_index" :> person_index(df.rows[i]))
                         @@ df.rows[i]])]]

\* ------------------------------------------------------------------------
\* Persistence: DataFrame.to_csv and pd.read_csv
\* ------------------------------------------------------------------------

RECURSIVE NatToText(_)
NatToText(n) ==
    IF n < 10 THEN <<Digits[n + 1]>>
    ELSE NatToText(n \div 10) \o <<Digits[(n % 10) + 1]>>

\* str(int)
IntToText(n) == IF n < 0 THEN <<"-">> \o NatToText(0 - n) ELSE NatToText(n)

\* The text to_csv writes for a cell: a str as it is, an int in decimal,
\* nothing for NaN.
CellToText(cell) ==
    IF cell[1] = "str" THEN cell[2]
    ELSE IF cell[1] = "nan" THEN <<>>
    ELSE IntToText(cell[2])

NoFile == [exists |-> FALSE, header |-> <<>>, rows |-> <<>>]

\* df.to_csv(anno_path, index=False): the header row, then one line per row
\* with the cells in column order; the index labels are not written.
to_csv(df, cols) ==
    [exists |-> TRUE,
     header |-> cols,
     rows   |-> list([i \in 1..Len(df.rows) |->
                    list([j \in 1..Len(cols) |->
                             CellToText(df.rows[i][cols[j]])])])]

BaseCols ==
    <<"person_id", "camera_id", "sequence_id", "frame_no", "dpm_bbox_no",
      "mode", "image_name", "image_path">>

\* __save_dataframe: df[cols] raises KeyError when a column is missing (the
\* frame of an empty record list has no columns), and nothing is written.
save_dataframe(df, mode) ==
    LET cols == IF mode = "train" THEN <<"person_index">> \o BaseCols
                ELSE BaseCols
    IN  IF \E j \in 1..Len(cols) : cols[j] \notin df.columns
        THEN [ok |-> FALSE, err |-> "KeyError", file |-> NoFile]
        ELSE [ok |-> TRUE, err |-> "", file |-> to_csv(df, cols)]

\* Text read_csv parses as an integer: an optional sign and decimal digits.
IsIntText(t) ==
    LET body == IF t # <<>> /\ t[1] \in {"-", "+"} THEN Tail(t) ELSE t
    IN  /\ body # <<>>
        /\ \A i \in 1..Len(body) : InSeq(Digits, body[i])

RECURSIVE DigitsToNat(_)
DigitsToNat(t) ==
    IF t = <<>> THEN 0
    ELSE 10 * DigitsToNat(SubSeq(t, 1, Len(t) - 1))
         + (IndexOf(Digits, t[Len(t)]) - 1)

TextToInt(t) ==
    IF t[1] = "-" THEN 0 - DigitsToNat(Tail(t))
    ELSE IF t[1] = "+" THEN DigitsToNat(Tail(t))
    ELSE DigitsToNat(t)

\* The default na_values of read_csv that can be written with the characters
\* of the model.
NaValues ==
    {<<>>,
     <<"-", "N", "a", "N">>, <<"-", "n", "a", "n">>,
     <<"N", "/", "A">>, <<"N", "A">>, <<"N", "U", "L", "L">>,
     <<"N", "a", "N">>, <<"N", "o", "n", "e">>,
     <<"n", "/", "a">>, <<"n", "a", "n">>, <<"n", "u", "l", "l">>}

\* The dtype read_csv infers for column j: int64 when every cell is integer
\* text, float64 when the cells are integer text or missing, object
\* otherwise.  (Cells in decimal-point, exponent or boolean notation do not
\* arise: no field of a record of this model holds such text.)
ColumnKind(file, j) ==
    IF \A i \in 1..Len(file.rows) : IsIntText(file.rows[i][j]) THEN "int64"
    ELSE IF \A i \in 1..Len(file.rows) :
                IsIntText(file.rows[i][j]) \/ file.rows[i][j] \in NaValues
         THEN "float64"
    ELSE "object"

\* The cell read_csv builds from the text t of a column of the given dtype.
ParseCell(kind, t) ==
    IF kind = "int64" THEN PyInt(TextToInt(t))
    ELSE IF t \in NaValues THEN NaN
    ELSE IF kind = "float64" THEN PyFloat(TextToInt(t))
    ELSE PyStr(t)

\* One row of the frame read_csv returns: column name -> cell.
RECURSIVE read_row(_, _, _, _)
read_row(header, kinds, texts, j) ==
    LET cell == header[j] :> ParseCell(kinds[j], texts[j])
    IN  IF j = Len(header) THEN cell
        ELSE cell @@ read_row(header, kinds, texts, j + 1)

\* pd.read_csv(anno_path)
read_csv(file) ==
    LET kinds == list([j \in 1..Len(file.header) |-> ColumnKind(file, j)])
    IN  [columns |-> {file.header[j] : j \in 1..Len(file.header)},
         index   |-> list([i \in 1..Len(file.rows) |-> i - 1]),
         rows    |-> list([i \in 1..Len(file.rows) |->
                        read_row(file.header, kinds, file.rows[i], 1)])]

\* ------------------------------------------------------------------------
\* Dataset views
\* ------------------------------------------------------------------------

\* df_all[df_all['mode']==mode]: the selected rows keep their index labels.
SelectMode(df_all, mode) ==
    LET keep == SelectSeq(list([i \in 1..Len(df_all.rows) |-> i]),
                          LAMBDA i : df_all.rows[i].mode = PyStr(mode))
    IN  [columns |-> df_all.columns,
         index   |-> list([k \in 1..Len(keep) |-> df_all.index[keep[k]]]),
         rows    |-> list([k \in 1..Len(keep) |-> df_all.rows[keep[k]]])]

\* .reset_index(drop=True)
reset_index(df) ==
    [columns |-> df.columns,
     index   |-> list([k \in 1..Len(df.rows) |-> k - 1]),
     rows    |-> df.rows]

\* Market1501Train.__init__: self.df
Market1501Train_init(file, mode) == reset_index(SelectMode(read_csv(file), mode))

\* self.df holding every row of the file, whatever its mode.
Market1501Test_init_unfiltered(file, mode) == reset_index(read_csv(file))

\* Market1501Test.__init__: self.df
Market1501Test_init(file, mode) == reset_index(SelectMode(read_csv(file), mode))

\* df.loc[idx, col] is defined when idx is an index label and col a column.
HasLoc(df, idx, col) ==
    /\ col \in df.columns
    /\ \E k \in 1..Len(df.index) : df.index[k] = idx

\* df.loc[idx, col]
loc(df, idx, col) ==
    df.rows[CHOOSE k \in 1..Len(df.index) : df.index[k] = idx][col]

\* The paths of the files present in the image directories.
ExistingPaths(files) ==
    UNION {{DirOf(m) \o n : n \in files[m]} : m \in Roles}

\* os.path.exists(img_path): whether a str names an existing file; os.stat
\* raises TypeError for a float (NaN, what read_csv gives for an empty field,
\* included), which os.path.exists does not catch.  An int would be taken as
\* a file descriptor; no image_path column is read as int64, every path
\* written holding the character '/'.
path_exists(files, img_path) ==
    CASE IsStr(img_path) ->
             [ok |-> TRUE, err |-> "",
              value |-> img_path[2] \in ExistingPaths(files)]
      [] img_path[1] \in {"nan", "float"} ->
             [ok |-> FALSE, err |-> "TypeError", value |-> FALSE]

\* Image.open(img_path).convert('RGB'), resized and transformed: the image
\* is identified by the file it is decoded from.
Image_open(img_path) == <<"img", img_path[2]>>

NoItem == [ok |-> FALSE, err |-> "", idx |-> -1, value |-> <<>>]

\* Market1501Train.__getitem__
Market1501Train_getitem(df, idx, files) ==
    LET img_path == loc(df, idx, "image_path")
        exists == path_exists(files, img_path)
        raised(err) == [ok |-> FALSE, err |-> err, idx |-> idx, value |-> <<>>]
    IN  IF ~HasLoc(df, idx, "image_path") THEN raised("KeyError")
        ELSE IF ~exists.ok THEN raised(exists.err)
        ELSE IF ~exists.value THEN raised("AssertionError")
        ELSE IF ~HasLoc(df, idx, "person_index") THEN raised("KeyError")
        ELSE [ok |-> TRUE, err |-> "", idx |-> idx,
              value |-> <<Image_open(img_path), loc(df, idx, "person_index")>>]

\* __getitem__ without the existence assertion.
Market1501Test_getitem_unasserted(df, idx, files) ==
    LET img_path == loc(df, idx, "image_path")
        raised(err) == [ok |-> FALSE, err |-> err, idx |-> idx, value |-> <<>>]
    IN  IF ~HasLoc(df, idx, "image_path") THEN raised("KeyError")
        ELSE IF ~HasLoc(df, idx, "person_id") THEN raised("KeyError")
        ELSE [ok |-> TRUE, err |-> "", idx |-> idx,
              value |-> <<Image_open(img_path), loc(df, idx, "person_id"),
                          img_path>>]

\* Market1501Test.__getitem__
Market1501Test_getitem(df, idx, files) ==
    LET img_path == loc(df, idx, "image_path")
        exists == path_exists(files, img_path)
        raised(err) == [ok |-> FALSE, err |-> err, idx |-> idx, value |-> <<>>]
    IN  IF ~HasLoc(df, idx, "image_path") THEN raised("KeyError")
        ELSE IF ~exists.ok THEN raised(exists.err)
        ELSE IF ~exists.value THEN raised("AssertionError")
        ELSE IF ~HasLoc(df, idx, "person_id") THEN raised("KeyError")
        ELSE [ok |-> TRUE, err |-> "", idx |-> idx,
              value |-> <<Image_open(img_path), loc(df, idx, "person_id"),
                          img_path>>]

\* __len__ of both classes: len(set(self.df['image_path'].values.tolist()))
Market1501_len(df) ==
    Cardinality({df.rows[k].image_path : k \in 1..Len(df.rows)})

\* ------------------------------------------------------------------------
\* State
\* ------------------------------------------------------------------------

VARIABLES
    dirs,     \* role -> the entries of the image directory of that role
    removed,  \* number of files removed from the directories so far
    collect,  \* role -> the last call of __org_data for that role
    build,    \* "train" / "test" -> the last run of make_train_anno / make_qng_anno
    frame,    \* "train" / "test" -> the DataFrame last handed to to_csv
    anno,     \* "train" / "test" -> the annotation file at that path
    view,     \* the datasets made by the last load_train_data / load_test_data
    item      \* the outcome of the last __getitem__

vars == <<dirs, removed, collect, build, frame, anno, view, item>>

Annos == {"train", "test"}

NoCollect ==
    [called |-> FALSE, entries |-> {}, img_names |-> <<>>,
     ok |-> FALSE, err |-> "", lis |-> <<>>]

NoBuild ==
    [ran |-> FALSE, out |-> "", shuffled |-> FALSE, ids_shuffled |-> FALSE,
     reran |-> FALSE, prev_shuffled |-> FALSE, seen |-> <<>>]

NoView ==
    [cls |-> "none", anno |-> "", file |-> NoFile, sets |-> <<>>,
     class_names |-> <<>>]

Init ==
    /\ \E t \in SUBSET TrainPool, g \in SUBSET GalleryPool, q \in SUBSET QueryPool :
           /\ Cardinality(t) + Cardinality(g) + Cardinality(q) <= MaxFiles
           /\ dirs = [m \in Roles |->
                         IF m = train THEN t ELSE IF m = gallery THEN g ELSE q]
    /\ removed = 0
    /\ collect = [m \in Roles |-> NoCollect]
    /\ build = [a \in Annos |-> NoBuild]
    /\ frame = [a \in Annos |-> DataFrame(<<>>)]
    /\ anno = [a \in Annos |-> NoFile]
    /\ view = NoView
    /\ item = NoItem @@ [cls |-> "none", mode |-> <<>>, missing |-> FALSE]

\* The log of one call of __org_data.
Collected(entries, img_names, res) ==
    [called |-> TRUE, entries |-> entries, img_names |-> img_names,
     ok |-> res.ok, err |-> res.err, lis |-> res.lis]

\* ------------------------------------------------------------------------
\* Build: make_train_anno and make_qng_anno
\* ------------------------------------------------------------------------

\* make_train_anno, lines 20-27, for one order in which os.listdir returns
\* the entries: the image names, the records and the frame made of them.
make_train_anno_records(listing) ==
    LET train_img_names == sorted(FilterImages(listing))
        train_list == org_data(train_dir, train_img_names, train)
    IN  [img_names |-> train_img_names,
         list      |-> train_list,
         df        |-> DataFrame(train_list.lis)]

\* make_train_anno, lines 28-31, for one order in which the set of training
\* person ids is iterated: the way the call ends, the frame handed to to_csv
\* and the file written.
make_train_anno_save(records, ids_iter) ==
    LET df == add_person_index(records.df, ids_iter)
        saved == save_dataframe(df.df, "train")
    IN  [out  |-> IF ~records.list.ok THEN records.list.err
                  ELSE IF ~df.ok THEN df.err
                  ELSE IF ~saved.ok THEN saved.err
                  ELSE "ok",
         df   |-> df.df,
         file |-> saved.file]

\* make_train_anno(data_root_dir, train_anno_path).  The function can be
\* called at any time; a dataset made earlier holds its own copy of the rows
\* it read, so a later build does not reach it.
make_train_anno ==
    \E listing \in Enumerations(dirs[train]) :
    \E records \in {make_train_anno_records(listing)} :
    \E ids_iter \in Enumerations(TrainPersonIds(records.df)) :
    \E done \in {make_train_anno_save(records, ids_iter)} :
        /\ collect' = [collect EXCEPT ![train] =
               Collected(dirs[train], records.img_names, records.list)]
        /\ build' = [build EXCEPT !["train"] =
               [ran |-> TRUE, out |-> done.out,
                shuffled |-> listing # sorted(listing),
                ids_shuffled |-> ids_iter # sorted(ids_iter),
                reran |-> build["train"].ran
                          /\ build["train"].seen = <<dirs[train]>>,
                prev_shuffled |-> build["train"].shuffled,
                seen |-> <<dirs[train]>>]]
        /\ frame' = IF done.out = "ok"
                    THEN [frame EXCEPT !["train"] = done.df]
                    ELSE frame
        /\ anno' = IF done.out = "ok"
                   THEN [anno EXCEPT !["train"] = done.file]
                   ELSE anno
        /\ UNCHANGED <<dirs, removed, view, item>>

\* make_qng_anno, lines 36-50, for one order in which os.listdir returns the
\* entries of each directory.
make_qng_anno_run(glisting, qlisting) ==
    LET gallery_img_names == sorted(FilterImages(glisting))
        query_img_names == sorted(FilterImages(qlisting))
        gallery_list == org_data(gallery_dir, gallery_img_names, gallery)
        query_list == org_data(query_dir, query_img_names, query)
        data_list == gallery_list.lis \o query_list.lis
        df == DataFrame(data_list)
        saved == save_dataframe(df, "test")
    IN  [gallery_img_names |-> gallery_img_names,
         query_img_names   |-> query_img_names,
         gallery_list      |-> gallery_list,
         query_list        |-> query_list,
         out  |-> IF ~gallery_list.ok THEN gallery_list.err
                  ELSE IF ~query_list.ok THEN query_list.err
                  ELSE IF ~saved.ok THEN saved.err
                  ELSE "ok",
         df   |-> df,
         file |-> saved.file]

\* make_qng_anno(data_root_dir, qng_anno_path).  The query directory is only
\* collected when collecting the gallery directory raised nothing.
make_qng_anno ==
    \E glisting \in Enumerations(dirs[gallery]),
       qlisting \in Enumerations(dirs[query]) :
    \E done \in {make_qng_anno_run(glisting, qlisting)} :
        /\ collect' = [collect EXCEPT
               ![gallery] = Collected(dirs[gallery], done.gallery_img_names,
                                      done.gallery_list),
               ![query] = IF done.gallery_list.ok
                          THEN Collected(dirs[query], done.query_img_names,
                                         done.query_list)
                          ELSE @]
        /\ build' = [build EXCEPT !["test"] =
               [ran |-> TRUE, out |-> done.out,
                shuffled |-> \/ glisting # sorted(glisting)
                             \/ qlisting # sorted(qlisting),
                ids_shuffled |-> FALSE,
                reran |-> build["test"].ran
                          /\ build["test"].seen = <<dirs[gallery], dirs[query]>>,
                prev_shuffled |-> build["test"].shuffled,
                seen |-> <<dirs[gallery], dirs[query]>>]]
        /\ frame' = IF done.out = "ok" THEN [frame EXCEPT !["test"] = done.df]
                    ELSE frame
        /\ anno' = IF done.out = "ok" THEN [anno EXCEPT !["test"] = done.file]
                   ELSE anno
        /\ UNCHANGED <<dirs, removed, view, item>>

\* A file of one of the image directories is deleted, at any time.
remove_file ==
    /\ removed < MaxRemoved
    /\ \E m \in Roles : \E n \in dirs[m] :
           dirs' = [dirs EXCEPT ![m] = @ \ {n}]
    /\ removed' = removed + 1
    /\ UNCHANGED <<collect, build, frame, anno, view, item>>

\* ------------------------------------------------------------------------
\* Loading: load_train_data and load_test_data
\* ------------------------------------------------------------------------

\* sorted(list(set(values))) for a set of int cells
RECURSIVE SortedCells(_)
SortedCells(S) ==
    IF S = {} THEN <<>>
    ELSE LET lo == CHOOSE x \in S : \A y \in S : x[2] <= y[2]
         IN  <<lo>> \o SortedCells(S \ {lo})

ResetItem == NoItem @@ [cls |-> "none", mode |-> <<>>, missing |-> FALSE]

\* DataLoader(dataset, shuffle=True) builds a RandomSampler, which raises
\* ValueError for a dataset of length 0.
RandomSampler_ok(df) == Market1501_len(df) > 0

\* load_train_data(anno_path) on an existing file: line 164 raises ValueError
\* for a file without train rows, line 166 KeyError for a file without the
\* column person_index; else the train dataset and class_names are returned.
load_train_data_run(file) ==
    LET train_set == Market1501Train_init(file, train)
        df == read_csv(file)
        picked == SelectMode(df, train)
    IN  IF ~RandomSampler_ok(train_set)
        THEN [ok |-> FALSE, err |-> "ValueError", sets |-> <<>>,
              class_names |-> <<>>]
        ELSE IF "person_index" \notin df.columns
        THEN [ok |-> FALSE, err |-> "KeyError", sets |-> <<>>,
              class_names |-> <<>>]
        ELSE [ok |-> TRUE, err |-> "", sets |-> (train :> train_set),
              class_names |-> SortedCells(
                  {picked.rows[k].person_index : k \in 1..Len(picked.rows)})]

\* load_train_data(anno_path).  A call that raises (pd.read_csv on a missing
\* file included) returns nothing and leaves the datasets made before.
load_train_data ==
    \E a \in Annos :
        /\ anno[a].exists
        /\ \E done \in {load_train_data_run(anno[a])} :
               /\ done.ok
               /\ view' = [cls |-> "Train", anno |-> a, file |-> anno[a],
                           sets |-> done.sets,
                           class_names |-> done.class_names]
        /\ item' = ResetItem
        /\ UNCHANGED <<dirs, removed, collect, build, frame, anno>>

\* load_test_data(anno_path) on an existing file: line 179 raises ValueError
\* for a file without query rows; the gallery loader does not shuffle and
\* takes an empty dataset.
load_test_data_run(file) ==
    LET query_set == Market1501Test_init(file, query)
        gallery_set == Market1501Test_init(file, gallery)
    IN  IF ~RandomSampler_ok(query_set)
        THEN [ok |-> FALSE, err |-> "ValueError", sets |-> <<>>]
        ELSE [ok |-> TRUE, err |-> "",
              sets |-> (query :> query_set) @@ (gallery :> gallery_set)]

\* load_test_data(anno_path).  A call that raises returns nothing.
load_test_data ==
    \E a \in Annos :
        /\ anno[a].exists
        /\ \E done \in {load_test_data_run(anno[a])} :
               /\ done.ok
               /\ view' = [cls |-> "Test", anno |-> a, file |-> anno[a],
                           sets |-> done.sets, class_names |-> <<>>]
        /\ item' = ResetItem
        /\ UNCHANGED <<dirs, removed, collect, build, frame, anno>>

\* ------------------------------------------------------------------------
\* Element access by the data loader: idx in range(len(dataset))
\* ------------------------------------------------------------------------

\* The lines of an annotation file whose mode field is the given role, as
\* written.
RawRows(file, mode) ==
    SelectSeq(file.rows, LAMBDA r : r[IndexOf(file.header, "mode")] = mode)

\* The image_path field of the idx-th such line names no existing file.
RawMissing(file, mode, idx, files) ==
    RawRows(file, mode)[idx + 1][IndexOf(file.header, "image_path")]
        \notin ExistingPaths(files)

train_getitem ==
    /\ view.cls = "Train"
    /\ \E idx \in 0..(Market1501_len(view.sets[train]) - 1) :
           item' = Market1501Train_getitem(view.sets[train], idx, dirs)
                   @@ [cls |-> "Train", mode |-> train,
                       missing |-> RawMissing(view.file, train, idx, dirs)]
    /\ UNCHANGED <<dirs, removed, collect, build, frame, anno, view>>

test_getitem ==
    /\ view.cls = "Test"
    /\ \E m \in {query, gallery} :
       \E idx \in 0..(Market1501_len(view.sets[m]) - 1) :
           item' = Market1501Test_getitem(view.sets[m], idx, dirs)
                   @@ [cls |-> "Test", mode |-> m,
                       missing |-> RawMissing(view.file, m, idx, dirs)]
    /\ UNCHANGED <<dirs, removed, collect, build, frame, anno, view>>

Next ==
    \/ make_train_anno
    \/ make_qng_anno
    \/ remove_file
    \/ load_train_data
    \/ load_test_data
    \/ train_getitem
    \/ test_getitem

Spec == Init /\ [][Next]_vars

\* ------------------------------------------------------------------------
\* Vocabulary of the properties
\* ------------------------------------------------------------------------

\* The underscore-delimited tokens of a file name.
Tokens(n) == split(n, "_")

NumDots(t) == Cardinality({i \in 1..Len(t) : t[i] = "."})

LastDot(t) == CHOOSE i \in 1..Len(t) : t[i] = "." /\ \A j \in (i + 1)..Len(t) : t[j] # "."

\* The extension of a name: the text after its last dot; a name without a
\* dot has none.
HasImageExt(n) ==
    /\ NumDots(n) > 0
    /\ lower(SubSeq(n, LastDot(n) + 1, Len(n))) \in ImageExts

\* A name with its extension stripped.
StripExt(t) == IF NumDots(t) = 0 THEN t ELSE SubSeq(t, 1, LastDot(t) - 1)

\* The rows of a frame with the given role, in order.
RowsOf(df, m) == SelectSeq(df.rows, LAMBDA r : r.mode = PyStr(m))

\* The field c of a line of an annotation file, as written.
Field(file, line, c) == line[IndexOf(file.header, c)]

Built(a) == build[a].ran /\ build[a].out = "ok"

\* ------------------------------------------------------------------------
\* Properties
\* ------------------------------------------------------------------------

\* C1: in the frame make_train_anno saves, every row is a train row, the
\* person_index values are exactly 0..K-1 for K distinct person ids, a
\* lexically smaller person id has a smaller index (so equal ids share an
\* index), and no row keeps the sentinel -999.
C1_IdentityIndexBijection ==
    anno["train"].exists =>
        LET rows == frame["train"].rows
            K == Cardinality({rows[i].person_id[2] : i \in 1..Len(rows)})
        IN  /\ \A i \in 1..Len(rows) :
                   /\ rows[i].mode = PyStr(train)
                   /\ rows[i].person_index[1] = "int"
                   /\ rows[i].person_index[2] # Sentinel
            /\ {rows[i].person_index[2] : i \in 1..Len(rows)} = 0..(K - 1)
            /\ \A i, j \in 1..Len(rows) :
                   StrLess(rows[i].person_id[2], rows[j].person_id[2])
                       <=> rows[i].person_index[2] < rows[j].person_index[2]

\* Two training identities were indexed, the set of identities having been
\* iterated out of lexical order.
C1_Witness ==
    /\ anno["train"].exists
    /\ Built("train")
    /\ build["train"].ids_shuffled
    /\ Cardinality({frame["train"].rows[i].person_index[2] :
                        i \in 1..Len(frame["train"].rows)}) = 2

\* C2: a name handed to the parser that has fewer than 4 underscore-delimited
\* tokens, or whose token 1 is shorter than 2 characters, makes the call fail
\* and no record is produced.
C2_MalformedRejected ==
    \A m \in Roles :
        collect[m].called =>
            \A i \in 1..Len(collect[m].img_names) :
                LET tok == Tokens(collect[m].img_names[i])
                IN  (Len(tok) < 4 \/ Len(tok[2]) < 2)
                        => (~collect[m].ok /\ collect[m].lis = <<>>)

\* C3: the record of a name with exactly 4 tokens and a token 1 of at least 2
\* characters holds token 0 as person_id, the first two characters of token 1
\* as camera_id, the rest as sequence_id, token 2 as frame_no, token 3 with
\* its extension stripped as dpm_bbox_no, and directory + name as image_path.
C3_FieldsOfRecord ==
    \A m \in Roles :
        (collect[m].called /\ collect[m].ok) =>
            \A i \in 1..Len(collect[m].img_names) :
                LET n == collect[m].img_names[i]
                    tok == Tokens(n)
                    rec == collect[m].lis[i]
                IN  (Len(tok) = 4 /\ Len(tok[2]) >= 2) =>
                        /\ rec.person_id = PyStr(tok[1])
                        /\ rec.camera_id = PyStr(SubSeq(tok[2], 1, 2))
                        /\ rec.sequence_id = PyStr(SubSeq(tok[2], 3, Len(tok[2])))
                        /\ rec.camera_id[2] \o rec.sequence_id[2] = tok[2]
                        /\ rec.frame_no = PyStr(tok[3])
                        /\ rec.dpm_bbox_no = PyStr(StripExt(tok[4]))
                        /\ rec.image_name = PyStr(n)
                        /\ rec.image_path = PyStr(DirOf(m) \o n)

\* C4: the names handed to the parser are exactly the directory entries whose
\* extension is jpg, jpeg or png in any case, in ascending lexical order, and
\* a completed collection holds one record per such name, in that order.
C4_CollectedImages ==
    \A m \in Roles :
        collect[m].called =>
            LET names == collect[m].img_names
            IN  /\ {names[i] : i \in 1..Len(names)}
                       = {n \in collect[m].entries : HasImageExt(n)}
                /\ \A i, j \in 1..Len(names) :
                       i < j => StrLess(names[i], names[j])
                /\ collect[m].ok =>
                       /\ Len(collect[m].lis) = Len(names)
                       /\ \A i \in 1..Len(names) :
                              collect[m].lis[i].image_name = PyStr(names[i])

\* C5: the rows of a dataset loaded from an annotation file equal, field by
\* field and in order, the rows of that role in the frame that was saved.
C5_RoundTrip ==
    (view.cls # "none" /\ view.file = anno[view.anno]) =>
        \A m \in DOMAIN view.sets :
            LET persisted == RowsOf(frame[view.anno], m)
                loaded == view.sets[m].rows
            IN  /\ Len(loaded) = Len(persisted)
                /\ \A k \in 1..Len(loaded) :
                       \A j \in 1..Len(view.file.header) :
                           loaded[k][view.file.header[j]]
                               = persisted[k][view.file.header[j]]

\* The rows with role m among the datasets of the loaded file: the loaded
\* dataset when there is one, else the dataset the class of that role makes.
Subset(m) ==
    IF m \in DOMAIN view.sets THEN view.sets[m].rows
    ELSE IF m = train THEN Market1501Train_init(view.file, m).rows
    ELSE Market1501Test_init(view.file, m).rows

RowSet(rows) == {rows[k] : k \in 1..Len(rows)}

\* C6: every line of a written annotation file has mode train, query or
\* gallery; the three datasets of a file are pairwise disjoint and together
\* hold each of its rows once; the dataset of a role no line has is empty.
C6_RolesPartition ==
    /\ \A a \in Annos :
           \A i \in 1..Len(anno[a].rows) :
               Field(anno[a], anno[a].rows[i], "mode") \in Roles
    /\ view.cls # "none" =>
           LET trains == Subset(train)
               queries == Subset(query)
               galleries == Subset(gallery)
               OfRole(rows, m) ==
                   /\ \A k \in 1..Len(rows) : rows[k].mode = PyStr(m)
                   /\ Len(rows) = Len(RawRows(view.file, m))
                   /\ RawRows(view.file, m) = <<>> => rows = <<>>
           IN  /\ OfRole(trains, train)
               /\ OfRole(queries, query)
               /\ OfRole(galleries, gallery)
               /\ RowSet(trains) \cap RowSet(queries) = {}
               /\ RowSet(trains) \cap RowSet(galleries) = {}
               /\ RowSet(queries) \cap RowSet(galleries) = {}
               /\ RowSet(trains) \cup RowSet(queries) \cup RowSet(galleries)
                      = RowSet(read_csv(view.file).rows)
               /\ Len(trains) + Len(queries) + Len(galleries)
                      = Len(view.file.rows)

\* The gallery dataset made from a file that holds query rows only is empty.
C6_Witness ==
    /\ view.cls = "Test"
    /\ view.anno = "test"
    /\ Len(view.file.rows) >= 1
    /\ view.sets[gallery].rows = <<>>
    /\ view.sets[query].rows # <<>>

\* What __getitem__ is to return for position idx of the dataset of role m:
\* the fields of the idx-th line of that role as the build wrote them, the
\* person id being the str taken from the file name.
Expected(cls, m, idx) ==
    LET line == RawRows(view.file, m)[idx + 1]
        img == <<"img", Field(view.file, line, "image_path")>>
    IN  IF cls = "Train"
        THEN <<img, PyInt(TextToInt(Field(view.file, line, "person_index")))>>
        ELSE <<img, PyStr(Field(view.file, line, "person_id")),
               PyStr(Field(view.file, line, "image_path"))>>

C7_Resolved ==
    (item.idx >= 0 /\ ~item.missing) =>
        /\ item.ok
        /\ item.idx < Len(RawRows(view.file, item.mode))
        /\ item.value = Expected(item.cls, item.mode, item.idx)

C7_ViewUnchanged ==
    (item'.idx >= 0 /\ item' # item) =>
        /\ view' = view
        /\ \A m \in DOMAIN view.sets :
               Market1501_len(view'.sets[m]) = Market1501_len(view.sets[m])

\* C7: resolving position i of a dataset of role r whose image exists returns
\* the image of the i-th line of that role in the file with that line's
\* person_index (train) or with that line's person_id, the str of the file
\* name, and image_path (query, gallery), and leaves the rows and the length
\* of the dataset unchanged.
C7_GetItem == [](C7_Resolved) /\ [][C7_ViewUnchanged]_vars

\* C8: resolving a position whose image_path names no existing file fails on
\* the assertion and returns no tuple, neither this row's nor another's.
C8_MissingImageFatal ==
    (item.idx >= 0 /\ item.missing) =>
        /\ ~item.ok
        /\ item.err = "AssertionError"
        /\ item.value = <<>>

\* A position was resolved after its image had been deleted.
C8_Witness ==
    /\ item.idx >= 0
    /\ item.missing
    /\ removed >= 1

\* C9: a build run again on unchanged directory contents ends the same way
\* and leaves the same frame and the same annotation file, whatever the
\* enumeration order of the directory and of the set of identities.
C9_Deterministic ==
    [][\A a \in Annos :
           (build[a].ran /\ build'[a].ran /\ build'[a].seen = build[a].seen) =>
               /\ build'[a].out = build[a].out
               /\ frame'[a] = frame[a]
               /\ anno'[a] = anno[a]]_vars

\* The training build ran twice on the same two-identity directory, listed in
\* lexical order in one run and out of order in the other, the identities
\* iterated out of order.
C9_Witness ==
    /\ Built("train")
    /\ build["train"].reran
    /\ build["train"].shuffled # build["train"].prev_shuffled
    /\ build["train"].ids_shuffled
    /\ Len(anno["train"].rows) = 2

\* C10: the lines of one role in a written annotation file have pairwise
\* different image paths; the length of a dataset is its number of rows and
\* every row is the one found at its position.
C10_DistinctPaths ==
    /\ \A a \in Annos : \A m \in Roles :
           LET lines == RawRows(anno[a], m)
           IN  \A i, j \in 1..Len(lines) :
                   i # j => Field(anno[a], lines[i], "image_path")
                                # Field(anno[a], lines[j], "image_path")
    /\ \A m \in DOMAIN view.sets :
           LET df == view.sets[m]
           IN  /\ Market1501_len(df) = Len(df.rows)
               /\ Market1501_len(df) = Len(RawRows(view.file, m))
               /\ \A k \in 1..Len(df.rows) :
                      /\ HasLoc(df, k - 1, "image_path")
                      /\ loc(df, k - 1, "image_path") = df.rows[k].image_path

\* A dataset of two rows was made.
C10_Witness ==
    \E m \in DOMAIN view.sets :
        /\ Len(view.sets[m].rows) = 2
        /\ Market1501_len(view.sets[m]) = 2

====
